---- MODULE Spec2Model ----
(***************************************************************************)
(* The two tutorial notebooks of DLWP-CS as state machines.                *)
(*                                                                         *)
(*  - "1 - Downloading and processing ERA5": the statements of the         *)
(*    notebook, run top to bottom, with the life cycle of the objects era  *)
(*    (ERA5Reanalysis) and pp (Preprocessor).                              *)
(*  - "3 - Training a DLWP-CS model": the parameters, input_names, the     *)
(*    Keras inputs, complete_model, the callbacks and the training run     *)
(*    started by dlwp.fit_generator.                                       *)
(*                                                                         *)
(* The two notebooks run in separate kernels, so their steps interleave.   *)
(* Tensors and layers are symbolic: a tensor is the text of the expression *)
(* that built it.  Python list indices are 0-based, TLA+ sequences are     *)
(* 1-based: ReadItem does the translation.                                 *)
(***************************************************************************)
EXTENDS Integers, Sequences, FiniteSets, TLC

\* ---------------------------------------------------------------- bounds
MaxSteps == 3
MaxMinEpochs == 3
MaxMaxEpochs == 4
MaxPatience == 2
MaxLoss == 2

\* The per-epoch validation losses, and np.Inf, the initial value of `best`.
Losses == 1..MaxLoss
Inf == MaxLoss + 1

VARIABLES
    \* notebook 1
    pc1,              \* index of the next statement of the download notebook
    era_retrieved,    \* era.retrieve has returned
    era_open,         \* era.open() was called and era.close() was not
    pp_created,       \* pp = Preprocessor(era, ...) exists
    pp_closed,        \* pp.close() was called
    files,            \* files written to disk
    log1,             \* the calls made so far, in order
    \* notebook 3, parameters
    integration_steps, add_solar, min_epochs, max_epochs, patience,
    \* notebook 3, model construction
    pc3,
    input_names, input_solar, solar_inputs, inputs,
    outputs, step, reads, model_inputs, model_outputs,
    \* notebook 3, training
    defined_callbacks, fit_callbacks, epochs, epoch,
    best, wait, stop_training, stop_patience, stop_max,
    val_losses, logs_written

vars1 == <<pc1, era_retrieved, era_open, pp_created, pp_closed, files, log1>>
params == <<integration_steps, add_solar, min_epochs, max_epochs, patience>>
build3 == <<input_names, input_solar, solar_inputs, inputs, outputs, step,
            reads, model_inputs, model_outputs>>
train3 == <<defined_callbacks, fit_callbacks, epochs, epoch, best, wait,
            stop_training, stop_patience, stop_max, val_losses, logs_written>>
vars == <<vars1, params, pc3, build3, train3>>

Range(s) == {s[i] : i \in DOMAIN s}

\* ------------------------------------------------------------ notebook 1
\* The statements of the download notebook that touch era, pp or the disk,
\* in the order of the cells.
\* DownloadCells with era closed right after the check of the retrieval.
DownloadCellsClosedEarly ==
    << "ERA5Reanalysis", "era.set_variables", "era.set_levels",
       "era.retrieve", "era.open", "era.Dataset", "era.close",
       "Preprocessor", "pp.data_to_series",
       "pp.data", "to_netcdf", "pp.close" >>

DownloadCells ==
    << "ERA5Reanalysis", "era.set_variables", "era.set_levels",
       "era.retrieve", "era.open", "era.Dataset",
       "Preprocessor", "pp.data_to_series",
       "pp.data", "to_netcdf", "era.close", "pp.close" >>

NextIs(op) == pc1 \in DOMAIN DownloadCells /\ DownloadCells[pc1] = op

Called(op) ==
    /\ NextIs(op)
    /\ log1' = Append(log1, op)
    /\ pc1' = pc1 + 1
    /\ UNCHANGED <<params, pc3, build3, train3>>

\* era = ERA5Reanalysis(...); era.set_variables(variables); era.set_levels(levels)
CreateEra ==
    /\ \E op \in {"ERA5Reanalysis", "era.set_variables", "era.set_levels"} : Called(op)
    /\ UNCHANGED <<era_retrieved, era_open, pp_created, pp_closed, files>>

\* era.retrieve(variables, levels, years=years, hourly=3, ...)
Retrieve ==
    /\ Called("era.retrieve")
    /\ era_retrieved' = TRUE
    /\ UNCHANGED <<era_open, pp_created, pp_closed, files>>

\* era.open()
OpenEra ==
    /\ Called("era.open")
    /\ era_open' = TRUE
    /\ UNCHANGED <<era_retrieved, pp_created, pp_closed, files>>

\* print(era.Dataset)
PrintDataset ==
    /\ Called("era.Dataset")
    /\ UNCHANGED <<era_retrieved, era_open, pp_created, pp_closed, files>>

\* pp = Preprocessor(era, predictor_file=processed_file)
CreatePreprocessor ==
    /\ Called("Preprocessor")
    /\ pp_created' = TRUE
    /\ UNCHANGED <<era_retrieved, era_open, pp_closed, files>>

\* pp.data_to_series(...): writes processed_file
DataToSeries ==
    /\ Called("pp.data_to_series")
    /\ files' = files \cup {"processed_file"}
    /\ UNCHANGED <<era_retrieved, era_open, pp_created, pp_closed>>

\* print(pp.data)
PrintData ==
    /\ Called("pp.data")
    /\ UNCHANGED <<era_retrieved, era_open, pp_created, pp_closed, files>>

\* pp.data.drop('varlev').to_netcdf(processed_file + '.nocoord')
WriteNoCoord ==
    /\ Called("to_netcdf")
    /\ files' = files \cup {"processed_file.nocoord"}
    /\ UNCHANGED <<era_retrieved, era_open, pp_created, pp_closed>>

\* era.close()
CloseEra ==
    /\ Called("era.close")
    /\ era_open' = FALSE
    /\ UNCHANGED <<era_retrieved, pp_created, pp_closed, files>>

\* pp.close()
ClosePreprocessor ==
    /\ Called("pp.close")
    /\ pp_closed' = TRUE
    /\ UNCHANGED <<era_retrieved, era_open, pp_created, files>>

\* ------------------------------------------------------------ notebook 3
\* 'solar_%d' % d
SolarName(d) == "solar_" \o ToString(d)

\* input_names = ['main_input'] + ['solar_%d' % i for i in range(1, integration_steps)]
InputNames == <<"main_input">> \o [i \in 1..(integration_steps - 1) |-> SolarName(i)]

\* input_solar = (integration_steps > 1 and add_solar)
InputSolar == integration_steps > 1 /\ add_solar

\* solar_inputs = [Input(shape=..., name='solar_%d' % d) for d in range(1, integration_steps)]
\* An Input layer is identified by its name.
SolarInputs == [d \in 1..(integration_steps - 1) |-> SolarName(d)]

\* inputs = main_input                    if not input_solar
\* inputs = [main_input] + solar_inputs   otherwise
\* is_seq tells a Python list from a single tensor.
Inputs ==
    IF ~input_solar
    THEN [is_seq |-> FALSE, items |-> <<"main_input">>]
    ELSE [is_seq |-> TRUE, items |-> <<"main_input">> \o solar_inputs]

\* The names of the Input layers a Model built on x_in has.
InputLayerNames(x_in) == x_in.items

\* model_function = globals()[cnn_model_name]; cnn_model_name = 'unet2'
ModelFunction(x) == "unet2(" \o x \o ")"

\* xo = Reshape(cs[:-1] + (io_time_steps, -1))(xo)
\* xo = Concatenate(axis=-1)([xo, Permute((2, 3, 4, 1, 5))(x_in[step])])
\* xo = Reshape(cs)(xo)
AddInsolation(xo, sol) ==
    "Reshape(Concatenate(Reshape(" \o xo \o "),Permute(" \o sol \o ")))"

\* x_in[i] of a Python list: IndexError when i is out of range.
ReadItem(x_in, i) ==
    IF i + 1 \in DOMAIN x_in.items THEN x_in.items[i + 1] ELSE "IndexError"

\* LoopContinues with the range one too long: range(1, integration_steps + 1)
LoopContinuesOneMore(s) == s <= integration_steps

\* for step in range(1, integration_steps)
LoopContinues(s) == s < integration_steps

\* input_names cell
DefineInputNames ==
    /\ pc3 = "input_names"
    /\ input_names' = InputNames
    /\ pc3' = "layers"
    /\ UNCHANGED <<vars1, params, train3>>
    /\ UNCHANGED <<input_solar, solar_inputs, inputs, outputs, step, reads,
                   model_inputs, model_outputs>>

\* layers cell: input_solar, main_input, solar_inputs
DefineLayers ==
    /\ pc3 = "layers"
    /\ input_solar' = InputSolar
    /\ solar_inputs' = IF InputSolar THEN SolarInputs ELSE <<>>
    /\ pc3' = "inputs"
    /\ UNCHANGED <<vars1, params, train3>>
    /\ UNCHANGED <<input_names, inputs, outputs, step, reads,
                   model_inputs, model_outputs>>

\* Model cell, up to the first append of complete_model(inputs):
\*   is_seq = isinstance(x_in, (list, tuple))
\*   xi = x_in[0] if is_seq else x_in
\*   outputs.append(model_function(xi))
CompleteModelFirst ==
    /\ pc3 = "inputs"
    /\ inputs' = Inputs
    /\ LET x_in == Inputs
           xi == IF x_in.is_seq THEN ReadItem(x_in, 0) ELSE x_in.items[1]
       IN /\ outputs' = <<ModelFunction(xi)>>
          /\ reads' = IF x_in.is_seq THEN {0} ELSE {}
    /\ step' = 1
    /\ pc3' = "complete_model"
    /\ UNCHANGED <<vars1, params, train3>>
    /\ UNCHANGED <<input_names, input_solar, solar_inputs, model_inputs, model_outputs>>

\* One iteration of the loop of complete_model.
CompleteModelStep ==
    /\ pc3 = "complete_model"
    /\ LoopContinues(step)
    /\ LET xo == outputs[(step - 1) + 1]
           solar == inputs.is_seq /\ input_solar
           xn == IF solar THEN AddInsolation(xo, ReadItem(inputs, step)) ELSE xo
       IN /\ outputs' = Append(outputs, ModelFunction(xn))
          /\ reads' = IF solar THEN reads \cup {step} ELSE reads
    /\ step' = step + 1
    /\ UNCHANGED <<vars1, params, pc3, train3>>
    /\ UNCHANGED <<input_names, input_solar, solar_inputs, inputs,
                   model_inputs, model_outputs>>

\* return outputs; model = Model(inputs=inputs, outputs=complete_model(inputs))
BuildModel ==
    /\ pc3 = "complete_model"
    /\ ~LoopContinues(step)
    /\ model_inputs' = InputLayerNames(inputs)
    /\ model_outputs' = outputs
    /\ pc3' = "callbacks"
    /\ UNCHANGED <<vars1, params, train3>>
    /\ UNCHANGED <<input_names, input_solar, solar_inputs, inputs, outputs,
                   step, reads>>

\* ------------------------------------------------- notebook 3, training
\* history = History(); early = EarlyStoppingMin(...); tensorboard = TensorBoard(...)
CellCallbacks == {"history", "early", "tensorboard"}

\* tensorboard = TensorBoard(log_dir=log_directory, update_freq='epoch')
TensorBoardLogDir == "log_directory"

\* EarlyStoppingMin(..., min_epochs=min_epochs, max_epochs=max_epochs, patience=patience, ...)
EarlyMaxEpochsOneMore == max_epochs + 1
EarlyPatienceOneMore == patience + 1
EarlyMinEpochs == min_epochs
EarlyMaxEpochs == max_epochs
EarlyPatience == patience

\* dlwp.fit_generator(tf_train_data, epochs=max_epochs + 1, ...)
FitEpochs == max_epochs + 1

\* callbacks=[history, early, GeneratorEpochEnd(generator)]
FitCallbacks == <<"history", "early", "GeneratorEpochEnd">>

\* EarlyStoppingMin (DLWP.custom), from the notebook's description of
\* min_epochs, max_epochs and patience.  monitor='val_loss', min_delta=0.:
\* the loss went down when it is below the best loss so far.
WentDown(current, b) == current < b

\* "stop training after `patience` epochs, but only after a minimum number of
\* epochs": done is the number of epochs completed.
PatienceStop(w, done) == w >= EarlyPatience /\ done >= EarlyMinEpochs

\* "max_epochs: maximum number of training epochs"
MaxStop(done) == done >= EarlyMaxEpochs

\* callbacks cell
DefineCallbacks ==
    /\ pc3 = "callbacks"
    /\ defined_callbacks' = CellCallbacks
    /\ pc3' = "fit"
    /\ UNCHANGED <<vars1, params, build3>>
    /\ UNCHANGED <<fit_callbacks, epochs, epoch, best, wait, stop_training,
                   stop_patience, stop_max, val_losses, logs_written>>

\* dlwp.fit_generator(...): the call and on_train_begin of the callbacks
FitGenerator ==
    /\ pc3 = "fit"
    /\ defined_callbacks' = defined_callbacks \cup {"GeneratorEpochEnd"}
    /\ fit_callbacks' = FitCallbacks
    /\ epochs' = FitEpochs
    /\ epoch' = 0
    /\ best' = Inf
    /\ wait' = 0
    /\ stop_training' = FALSE
    /\ pc3' = "training"
    /\ UNCHANGED <<vars1, params, build3>>
    /\ UNCHANGED <<stop_patience, stop_max, val_losses, logs_written>>

\* One epoch of the training loop: the epoch runs, the validation loss is
\* computed, on_epoch_end of every callback in the list runs, and the loop
\* ends when stop_training is set or `epochs` epochs have run.
TrainEpoch(loss) ==
    /\ pc3 = "training"
    /\ epoch < epochs
    /\ ~stop_training
    /\ val_losses' = Append(val_losses, loss)
    /\ LET done == epoch + 1
           early == "early" \in Range(fit_callbacks)
           down == WentDown(loss, best)
           w == IF down THEN 0 ELSE wait + 1
           byPatience == early /\ ~down /\ PatienceStop(w, done)
           byMax == early /\ MaxStop(done)
       IN /\ best' = IF early /\ down THEN loss ELSE best
          /\ wait' = IF early THEN w ELSE wait
          /\ stop_patience' = byPatience
          /\ stop_max' = byMax
          /\ stop_training' = (byPatience \/ byMax)
          /\ epoch' = done
          /\ pc3' = IF byPatience \/ byMax \/ done >= epochs
                    THEN "trained" ELSE "training"
    /\ logs_written' = IF "tensorboard" \in Range(fit_callbacks)
                       THEN logs_written \cup {TensorBoardLogDir}
                       ELSE logs_written
    /\ UNCHANGED <<vars1, params, build3>>
    /\ UNCHANGED <<defined_callbacks, fit_callbacks, epochs>>

\* ---------------------------------------------------------- specification
Init ==
    /\ pc1 = 1
    /\ era_retrieved = FALSE
    /\ era_open = FALSE
    /\ pp_created = FALSE
    /\ pp_closed = FALSE
    /\ files = {}
    /\ log1 = <<>>
    /\ integration_steps \in 1..MaxSteps
    /\ add_solar \in BOOLEAN
    /\ min_epochs \in 0..MaxMinEpochs
    /\ max_epochs \in 1..MaxMaxEpochs
    /\ patience \in 1..MaxPatience
    /\ pc3 = "input_names"
    /\ input_names = <<>>
    /\ input_solar = FALSE
    /\ solar_inputs = <<>>
    /\ inputs = [is_seq |-> FALSE, items |-> <<>>]
    /\ outputs = <<>>
    /\ step = 0
    /\ reads = {}
    /\ model_inputs = <<>>
    /\ model_outputs = <<>>
    /\ defined_callbacks = {}
    /\ fit_callbacks = <<>>
    /\ epochs = 0
    /\ epoch = 0
    /\ best = Inf
    /\ wait = 0
    /\ stop_training = FALSE
    /\ stop_patience = FALSE
    /\ stop_max = FALSE
    /\ val_losses = <<>>
    /\ logs_written = {}

Next ==
    \/ CreateEra
    \/ Retrieve
    \/ OpenEra
    \/ PrintDataset
    \/ CreatePreprocessor
    \/ DataToSeries
    \/ PrintData
    \/ WriteNoCoord
    \/ CloseEra
    \/ ClosePreprocessor
    \/ DefineInputNames
    \/ DefineLayers
    \/ CompleteModelFirst
    \/ CompleteModelStep
    \/ BuildModel
    \/ DefineCallbacks
    \/ FitGenerator
    \/ \E loss \in Losses : TrainEpoch(loss)

Spec == Init /\ [][Next]_vars

\* ------------------------------------------------------------ properties
EpochsRun == Len(val_losses)

NoDecreaseRun(n) ==
    /\ n > patience
    /\ n <= EpochsRun
    /\ \A j \in (n - patience + 1)..n : val_losses[j] >= val_losses[j - 1]

C3_AllCallbacksPassed ==
    pc3 \in {"training", "trained"} =>
        /\ defined_callbacks \subseteq Range(fit_callbacks)
        /\ pc3 = "trained" => TensorBoardLogDir \in logs_written

ModelBuilt == pc3 \in {"callbacks", "fit", "training", "trained"}

\* C4: complete_model returns exactly integration_steps outputs; output 0 is
\* the model function of the main input, output k of a tensor built from
\* output k-1 (with x_in[k] concatenated when the input is a list and
\* input_solar holds); every index of x_in it reads is within bounds.
C4_CompleteModel ==
    /\ \A i \in reads : 0 <= i /\ i < Len(inputs.items)
    /\ ModelBuilt =>
        /\ Len(model_outputs) = integration_steps
        /\ model_outputs[1] = ModelFunction("main_input")
        /\ \A k \in 1..(integration_steps - 1) :
              model_outputs[k + 1] =
                  ModelFunction(IF inputs.is_seq /\ input_solar
                                THEN AddInsolation(model_outputs[k], SolarName(k))
                                ELSE model_outputs[k])

\* A model of three steps with insolation: x_in[0], x_in[1], x_in[2] were read.
C4_Witness ==
    /\ ModelBuilt
    /\ integration_steps = 3
    /\ input_solar
    /\ reads = {0, 1, 2}
    /\ Len(model_outputs) = 3

\* C5: the input names handed to tf_data_generator are, in order and number,
\* the names of the Input layers the Model is built with.
C5_InputNamesMatch == ModelBuilt => input_names = model_inputs

Before(op, i) == \E j \in 1..(i - 1) : log1[j] = op
Count(op) == Cardinality({i \in DOMAIN log1 : log1[i] = op})
EraOps == {"era.set_variables", "era.set_levels", "era.retrieve", "era.open",
           "era.Dataset", "era.close"}
PpOps == {"pp.data_to_series", "pp.data", "to_netcdf", "pp.close"}
DownloadDone == pc1 > Len(DownloadCells)

\* C6: era.open() and the read of era.Dataset come after era.retrieve returned;
\* the Preprocessor is created and data_to_series runs while era is open; the
\* '.nocoord' file is written before clean-up; era.close() and pp.close() are
\* each called exactly once, and no operation on era or pp follows its close.
C6_DownloadLifecycle ==
    /\ \A i \in DOMAIN log1 :
          /\ log1[i] \in {"era.open", "era.Dataset"} => Before("era.retrieve", i)
          /\ log1[i] \in {"Preprocessor", "pp.data_to_series"} =>
                 Before("era.open", i) /\ ~Before("era.close", i)
          /\ log1[i] \in {"era.close", "pp.close"} => Before("to_netcdf", i)
          /\ log1[i] \in EraOps => ~Before("era.close", i)
          /\ log1[i] \in PpOps => ~Before("pp.close", i)
    /\ era_open => era_retrieved
    /\ (pp_created /\ ~pp_closed /\ "processed_file.nocoord" \notin files) => era_open
    /\ pp_closed => "processed_file.nocoord" \in files
    /\ Count("era.close") <= 1 /\ Count("pp.close") <= 1
    /\ DownloadDone => Count("era.close") = 1 /\ Count("pp.close") = 1

\* The download notebook has run to its end.
C6_Witness ==
    /\ DownloadDone
    /\ pp_closed /\ ~era_open /\ era_retrieved
    /\ files = {"processed_file", "processed_file.nocoord"}
    /\ log1 = DownloadCells

====
